---- MODULE Spec2Model ----
(***************************************************************************)
(* A model of healsparse.HealSparseMap (src/healsparse/healSparseMap.py).  *)
(*                                                                         *)
(* A map is the pair (covIndexMap, sparseMap) plus its resolutions and its *)
(* sentinel.  numpy arrays are modelled as functions over 0..n-1, fancy    *)
(* indexing and fancy assignment element by element in index order, as     *)
(* numpy executes them for one-dimensional index arrays.                   *)
(*                                                                         *)
(* Values are integers.  UNSEEN stands for healpy's UNSEEN (-1.6375e30);   *)
(* the only things the code does with it are comparisons and assignments.  *)
(***************************************************************************)
EXTENDS Integers, Sequences, FiniteSets, TLC

VARIABLES
    nsideCoverage,  \* self._nsideCoverage
    nsideSparse,    \* self._nsideSparse
    dtype,          \* self._sparseMap.dtype: "f8", "i8" or "rec"
    primary,        \* self._primary: <<>> for None, <<name>> otherwise
    sentinel,       \* self._sentinel
    bitShift,       \* self._bitShift
    covIndexMap,    \* self._covIndexMap : array over the coarse pixels
    sparseMap,      \* self._sparseMap   : array of value slots
    old,            \* the map as it was when the call in progress began
    call,           \* the call in progress: its arguments, and what it
                    \* returned or raised (op "idle": none)
    raised,         \* whether that call raised an exception
    ret,            \* <<m>> when that call returned a new map m, else <<>>
    grown,          \* the coarse pixels that call added to the coverage
    used,           \* number of pixel entries / operations spent so far
    derived,        \* the second map object the caller holds: the map a
                    \* copy-returning call on self returned
    file,           \* the persisted object at the file name used: <<>> when
                    \* there is none, else <<its extensions and headers>>
    randoms         \* the locals of makeUniformRandoms(self, nRandom) and
                    \* its position: at the loop test, returned, raised

vars == <<nsideCoverage, nsideSparse, dtype, primary, sentinel, bitShift,
          covIndexMap, sparseMap, old, call, raised, ret, grown, used,
          derived, file, randoms>>

---------------------------------------------------------------------------
(* Bounds of the exploration. *)

\* Total number of pixel entries (plus one per mask / arithmetic call) that
\* the calls of one run may spend.
MaxWork == 3

\* Stand-in for hp.UNSEEN, the default sentinel of floating-point maps.
UNSEEN == -2

\* The values written by updateValues: one below the sentinel, the
\* sentinel itself, and one valid value.
Values == {UNSEEN - 1, UNSEEN, 1}

\* The pixel ids passed to updateValues: with four fine pixels per coarse
\* pixel, two pixels of coarse pixel 0, one of coarse pixel 1 and one of
\* coarse pixel 2.
UpdatePixels == {0, 1, 4, 9}

---------------------------------------------------------------------------
(* numpy arrays: functions over 0..n-1. *)

Size(a) == Cardinality(DOMAIN a)

FromSeq(s) == [i \in 0 .. (Len(s) - 1) |-> s[i + 1]]

Full(n, v) == [i \in 0 .. (n - 1) |-> v]

\* np.append(a, b)
NpAppend(a, b) ==
    [i \in 0 .. (Size(a) + Size(b) - 1) |->
        IF i < Size(a) THEN a[i] ELSE b[i - Size(a)]]

\* np.where(mask)[0]: the indices at which mask holds, ascending.
NpWhere(mask) ==
    FromSeq(SelectSeq([k \in 1 .. Size(mask) |-> k - 1], LAMBDA i : mask[i]))

RECURSIVE SortedSeq(_)
SortedSeq(S) ==
    IF S = {} THEN <<>>
    ELSE LET m == CHOOSE x \in S : \A y \in S : x <= y
         IN  <<m>> \o SortedSeq(S \ {m})

\* np.unique(a): the distinct elements of a, ascending.
NpUnique(a) == FromSeq(SortedSeq({a[i] : i \in DOMAIN a}))

\* a[idx] for an index array idx (fancy indexing).
Take(a, idx) == [k \in DOMAIN idx |-> a[idx[k]]]

\* Whether every index of idx addresses an element of a.
InBounds(a, idx) == \A k \in DOMAIN idx : idx[k] \in DOMAIN a

RECURSIVE PutFromEnd(_, _, _, _)
PutFromEnd(a, idx, vals, k) ==
    IF k < 0 THEN a
    ELSE PutFromEnd([a EXCEPT ![idx[k]] = vals[k]], idx, vals, k - 1)

\* Faulty variant: the elements are stored from the last to the first, so the first
\* store to an index remains.
Put_FirstWins(a, idx, vals) == PutFromEnd(a, idx, vals, Size(idx) - 1)

RECURSIVE PutFrom(_, _, _, _)
PutFrom(a, idx, vals, k) ==
    IF k >= Size(idx) THEN a
    ELSE PutFrom([a EXCEPT ![idx[k]] = vals[k]], idx, vals, k + 1)

\* a[idx] = vals for an index array idx: the elements are stored one after
\* the other in the order of idx, so the last store to an index remains.
Put(a, idx, vals) == PutFrom(a, idx, vals, 0)

---------------------------------------------------------------------------
(* Resolutions. *)

\* hp.nside2npix
Nside2Npix(nside) == 12 * nside * nside

\* int(np.round(np.log(num / den) / np.log(2))): the integer nearest to
\* log2(num/den).  k is nearest iff 2^(2k-1) <= (num/den)^2 < 2^(2k+1).
RoundLog2(num, den) ==
    CHOOSE k \in -8 .. 8 :
        IF k >= 0
        THEN /\ (4 ^ k) * den * den <= 2 * num * num
             /\ 2 * num * num < (4 ^ (k + 1)) * den * den
        ELSE /\ den * den <= 2 * num * num * (4 ^ (0 - k))
             /\ 2 * num * num * (4 ^ (0 - k)) < 4 * den * den

\* 2 * int(np.round(np.log(nsFine / nsCov) / np.log(2)))
BitShift(nsFine, nsCov) == 2 * RoundLog2(nsFine, nsCov)

\* np.right_shift / np.left_shift on non-negative ids
RightShift(p, s) == p \div (2 ^ s)

LeftShift(p, s) == p * (2 ^ s)

---------------------------------------------------------------------------
(* The map object.  The operations below are functions of a map record m,  *)
(* so that they apply to self, to a mask map and to a returned map alike.  *)

\* hp.npix2nside
Npix2Nside(npix) == CHOOSE n \in 1 .. 8 : Nside2Npix(n) = npix

\* HealSparseMap.__init__ from covIndexMap / sparseMap / nsideSparse.
HealSparseMap(cov, sparse, nsSparse, dt, prim, sent) ==
    [nsideCoverage |-> Npix2Nside(Size(cov)),
     nsideSparse   |-> nsSparse,
     dtype         |-> dt,
     primary       |-> prim,
     sentinel      |-> sent,
     bitShift      |-> BitShift(nsSparse, Npix2Nside(Size(cov))),
     covIndexMap   |-> cov,
     sparseMap     |-> sparse]

isRecArray(m) == m.dtype = "rec"

\* The field the validity test reads: the primary field of a record slot,
\* the slot itself otherwise.
PrimaryOf(m, v) == IF isRecArray(m) THEN v[m.primary[1]] ELSE v

\* utils.checkSentinel: the default sentinel of a floating-point map is
\* UNSEEN; an explicit sentinel is kept.  <<>> is None.
checkSentinel(dt, sent) == IF sent = <<>> THEN UNSEEN ELSE sent[1]

\* The fill value of one slot of an empty map.
EmptySlot(dt, prim, sent) ==
    IF dt = "rec"
    THEN [f \in {"a", "b"} |-> IF f = prim[1] THEN sent ELSE UNSEEN]
    ELSE sent

makeEmpty(nsCov, nsSparse, dt, prim, sent) ==
    LET nFinePerCov == 2 ^ BitShift(nsSparse, nsCov)
        npix        == Nside2Npix(nsCov)
        s           == checkSentinel(dt, sent)
        cov         == [c \in 0 .. (npix - 1) |-> 0 - c * nFinePerCov]
        sparse      == Full(nFinePerCov, EmptySlot(dt, prim, s))
    IN  HealSparseMap(cov, sparse, nsSparse, dt, prim, s)

\* Faulty variant: a block starting right after the default block is missed.
coverageMask_Strict(m) ==
    LET nfine == 2 ^ m.bitShift
    IN  [c \in DOMAIN m.covIndexMap |-> m.covIndexMap[c] + c * nfine > nfine]

coverageMask(m) ==
    LET nfine == 2 ^ m.bitShift
    IN  [c \in DOMAIN m.covIndexMap |-> m.covIndexMap[c] + c * nfine >= nfine]

\* The storage offsets of the pixel array pix.
Offsets(m, pix) ==
    [k \in DOMAIN pix |->
        pix[k] + m.covIndexMap[RightShift(pix[k], m.bitShift)]]

getValuePixel(m, pix) == Take(m.sparseMap, Offsets(m, pix))

getValidMask(m, pix) ==
    LET values == getValuePixel(m, pix)
    IN  [k \in DOMAIN pix |-> PrimaryOf(m, values[k]) > m.sentinel]

\* Faulty variant: every pixel of a covered coarse pixel is returned.
validPixels_AllCovered(m) ==
    LET validCoverage == NpWhere(coverageMask(m))
        nFinePerCov   == 2 ^ m.bitShift
    IN  [j \in 0 .. (Size(validCoverage) * nFinePerCov - 1) |->
            (j % nFinePerCov) + LeftShift(validCoverage[j \div nFinePerCov], m.bitShift)]

validPixels(m) ==
    LET validCoverage == NpWhere(coverageMask(m))
        nFinePerCov   == 2 ^ m.bitShift
        pixBase       == [k \in DOMAIN validCoverage |->
                             LeftShift(validCoverage[k], m.bitShift)]
        allPixels     == [j \in 0 .. (Size(validCoverage) * nFinePerCov - 1) |->
                             (j % nFinePerCov) + pixBase[j \div nFinePerCov]]
    IN  Take(allPixels, NpWhere(getValidMask(m, allPixels)))

\* Faulty variant: nothing is stored in the blocks already allocated.
WriteInCov_Skip(sparse, offsets, values) == sparse

\* The in-coverage store of updateValues.
WriteInCov(sparse, offsets, values) == Put(sparse, offsets, values)

\* Faulty variant: the new blocks are numbered from the start of the storage.
GrowCovIndex_NoSize(cov, newCovPix, nFinePerCov, size) ==
    LET temp  == [c \in DOMAIN cov |-> cov[c] + c * nFinePerCov]
        temp2 == [c \in DOMAIN cov |->
                     IF \E k \in DOMAIN newCovPix : newCovPix[k] = c
                     THEN (CHOOSE k \in DOMAIN newCovPix : newCovPix[k] = c)
                              * nFinePerCov
                     ELSE temp[c]]
    IN  [c \in DOMAIN cov |-> temp2[c] - c * nFinePerCov]

\* Faulty variant: every new coarse pixel is given the first appended block.
GrowCovIndex_Shared(cov, newCovPix, nFinePerCov, size) ==
    LET temp  == [c \in DOMAIN cov |-> cov[c] + c * nFinePerCov]
        temp2 == [c \in DOMAIN cov |->
                     IF \E k \in DOMAIN newCovPix : newCovPix[k] = c
                     THEN size ELSE temp[c]]
    IN  [c \in DOMAIN cov |-> temp2[c] - c * nFinePerCov]

\* The new coverage index of updateValues: the blocks of newCovPix are
\* appended, in the order of newCovPix, after the size slots in use.
GrowCovIndex(cov, newCovPix, nFinePerCov, size) ==
    LET temp  == [c \in DOMAIN cov |-> cov[c] + c * nFinePerCov]
        temp2 == Put(temp, newCovPix,
                     [k \in DOMAIN newCovPix |-> k * nFinePerCov + size])
    IN  [c \in DOMAIN cov |-> temp2[c] - c * nFinePerCov]

\* updateValues(pixel, values): the map's arrays afterwards and whether the
\* call raised.  isArray: values is a numpy array; vdtype: its dtype.
updateValues(m, pixel, values, isArray, vdtype) ==
    LET unchanged == [covIndexMap |-> m.covIndexMap, sparseMap |-> m.sparseMap,
                      raised |-> TRUE, newCovPix |-> <<>>]
        ipnestCov == [k \in DOMAIN pixel |-> RightShift(pixel[k], m.bitShift)]
        covMask   == coverageMask(m)
        inCov     == NpWhere([k \in DOMAIN pixel |-> covMask[ipnestCov[k]]])
        outCov    == NpWhere([k \in DOMAIN pixel |-> ~covMask[ipnestCov[k]]])
    IN  IF ~isArray THEN unchanged
        ELSE IF m.dtype # vdtype THEN unchanged
        ELSE IF ~InBounds(values, inCov) THEN unchanged
        ELSE
          LET sparse1 == WriteInCov(m.sparseMap,
                                    Offsets(m, Take(pixel, inCov)),
                                    Take(values, inCov))
          IN  IF Size(outCov) = 0
              THEN [covIndexMap |-> m.covIndexMap, sparseMap |-> sparse1,
                    raised |-> FALSE, newCovPix |-> <<>>]
              ELSE
                LET nFinePerCov == 2 ^ m.bitShift
                    newCovPix   == NpUnique(Take(ipnestCov, outCov))
                    sparseAppend == Full(Size(newCovPix) * nFinePerCov, sparse1[0])
                    covIndexMapTemp ==
                        GrowCovIndex(m.covIndexMap, newCovPix, nFinePerCov,
                                     Size(sparse1))
                    mTemp == [m EXCEPT !.covIndexMap = covIndexMapTemp]
                    appOff == LET o == Offsets(mTemp, Take(pixel, outCov))
                              IN  [k \in DOMAIN o |-> o[k] - Size(sparse1)]
                IN  IF ~InBounds(values, outCov)
                    THEN [covIndexMap |-> m.covIndexMap, sparseMap |-> sparse1,
                          raised |-> TRUE, newCovPix |-> <<>>]
                    ELSE [covIndexMap |-> covIndexMapTemp,
                          sparseMap |-> NpAppend(sparse1,
                                           Put(sparseAppend, appOff,
                                               Take(values, outCov))),
                          raised |-> FALSE, newCovPix |-> newCovPix]

\* isIntegerMap
\* HealSparseMap.coverageMap: the storage is cut into npop_pix + 1 rows, row
\* b being block b; the counts of the rows after the first are assigned to
\* the covered coarse pixels in ascending order.  A fraction is kept as
\* numerator and denominator.
coverageMap(m) ==
    LET covMask  == coverageMask(m)
        covPix   == NpWhere(covMask)
        npop_pix == Size(covPix)
        row      == Size(m.sparseMap) \div (npop_pix + 1)
        counts   == [b \in 0 .. npop_pix |->
                        Cardinality({j \in 0 .. (row - 1) :
                            PrimaryOf(m, m.sparseMap[b * row + j])
                                > m.sentinel})]
    IN  Put(Full(Size(covMask), [num |-> 0, den |-> 1]), covPix,
            [k \in DOMAIN covPix |->
                [num |-> counts[k + 1], den |-> 2 ^ m.bitShift]])

isIntegerMap(m) == ~isRecArray(m) /\ m.dtype = "i8"

RECURSIVE BitAndNat(_, _)
BitAndNat(x, y) ==
    IF x = 0 \/ y = 0 THEN 0
    ELSE (x % 2) * (y % 2) + 2 * BitAndNat(x \div 2, y \div 2)

\* x & bits on int64 for 0 <= bits < 2^16: only the low 16 bits of the
\* two's complement of x take part.
BitAnd(x, bits) == BitAndNat(x % (2 ^ 16), bits)

\* The positions of validPixels that applyMask finds flagged by maskMap.
\* maskBits is <<>> for None.
BadPixels(maskMap, pixels, maskBits) ==
    LET maskValues == getValuePixel(maskMap, pixels)
    IN  IF maskBits = <<>>
        THEN NpWhere([k \in DOMAIN pixels |-> maskValues[k] > 0])
        ELSE NpWhere([k \in DOMAIN pixels |->
                         BitAnd(maskValues[k], maskBits[1]) > 0])

\* np.zeros(n, dtype) with the primary field (the slot, for a scalar map)
\* set to the sentinel.
MaskedValues(m, n) ==
    Full(n, IF isRecArray(m)
            THEN [f \in {"a", "b"} |-> IF f = m.primary[1] THEN m.sentinel ELSE 0]
            ELSE m.sentinel)

\* applyMask(maskMap, maskBits, inPlace=True): the arrays of self
\* afterwards, and whether the call raised.
applyMask(m, maskMap, maskBits) ==
    IF ~isIntegerMap(maskMap)
    THEN [covIndexMap |-> m.covIndexMap, sparseMap |-> m.sparseMap,
          raised |-> TRUE, newCovPix |-> <<>>]
    ELSE LET valid     == validPixels(m)
             badPixels == BadPixels(maskMap, valid, maskBits)
         IN  updateValues(m, Take(valid, badPixels),
                          MaskedValues(m, Size(badPixels)), TRUE, m.dtype)

\* The ufuncs of the arithmetic operators, on integers.
Ufunc(func, x, other) ==
    CASE func = "add"      -> x + other
      [] func = "subtract" -> x - other
      [] func = "multiply" -> x * other

\* Faulty variant: the ufunc is applied to every slot of the storage.
applyOperation_Unmasked(m, other, func) ==
    IF isRecArray(m)
    THEN [sparseMap |-> m.sparseMap, raised |-> TRUE]
    ELSE [sparseMap |-> [i \in DOMAIN m.sparseMap |->
                            Ufunc(func, m.sparseMap[i], other)],
          raised |-> FALSE]

\* _applyOperation(other, func, inPlace=True) with an integer constant:
\* the storage afterwards, and whether the call raised.
applyOperation(m, other, func) ==
    IF isRecArray(m)
    THEN [sparseMap |-> m.sparseMap, raised |-> TRUE]
    ELSE LET validSparsePixels == [i \in DOMAIN m.sparseMap |->
                                      m.sparseMap[i] > m.sentinel]
         IN  [sparseMap |-> [i \in DOMAIN m.sparseMap |->
                                IF validSparsePixels[i]
                                THEN Ufunc(func, m.sparseMap[i], other)
                                ELSE m.sparseMap[i]],
              raised |-> FALSE]

\* The operators _applyOperation is called with intOnly=True.
IntOnly(func) == func \in {"bitwise_and", "bitwise_xor", "bitwise_or"}

RECURSIVE BitOpNat(_, _, _)
BitOpNat(func, x, y) ==
    IF x = 0 /\ y = 0 THEN 0
    ELSE LET a == x % 2
             b == y % 2
             bit == CASE func = "bitwise_and" -> a * b
                      [] func = "bitwise_or"  -> IF a + b > 0 THEN 1 ELSE 0
                      [] func = "bitwise_xor" -> (a + b) % 2
         IN  bit + 2 * BitOpNat(func, x \div 2, y \div 2)

\* np.bitwise_and / or / xor on int64 operands of magnitude below 2^15: the
\* low 16 bits of the two's complements decide, the rest is sign extension.
BitUfunc(func, x, y) ==
    LET r == BitOpNat(func, x % (2 ^ 16), y % (2 ^ 16))
    IN  IF r >= 2 ^ 15 THEN r - 2 ^ 16 ELSE r

\* Faulty variant: the class of the constant is not looked at.
applyOperationClass_AnyClass(m, other, otherClass, func) ==
    IF isRecArray(m) \/ (IntOnly(func) /\ m.dtype # "i8")
    THEN [sparseMap |-> m.sparseMap, raised |-> TRUE]
    ELSE [sparseMap |-> [i \in DOMAIN m.sparseMap |->
                            IF m.sparseMap[i] > m.sentinel
                            THEN IF IntOnly(func)
                                 THEN BitUfunc(func, m.sparseMap[i], other)
                                 ELSE Ufunc(func, m.sparseMap[i], other)
                            ELSE m.sparseMap[i]],
          raised |-> FALSE]

\* _applyOperation(other, func, intOnly): the storage the ufunc leaves (in
\* self._sparseMap when in place, in the copy otherwise) and whether the
\* call raised.  otherClass is the class of the constant: "int" (int, bool,
\* np.integer), "float" (float, np.floating) or anything else.
applyOperationClass(m, other, otherClass, func) ==
    LET fail == [sparseMap |-> m.sparseMap, raised |-> TRUE]
    IN  IF isRecArray(m) THEN fail
        ELSE IF IntOnly(func) /\ m.dtype # "i8" THEN fail
        ELSE IF otherClass \notin {"int", "float"} THEN fail
        ELSE IF otherClass # "int" /\ IntOnly(func) THEN fail
        \* the ufunc cannot cast its float64 result into integer storage
        ELSE IF otherClass = "float" /\ m.dtype = "i8" THEN fail
        ELSE IF IntOnly(func)
        THEN [sparseMap |-> [i \in DOMAIN m.sparseMap |->
                                IF m.sparseMap[i] > m.sentinel
                                THEN BitUfunc(func, m.sparseMap[i], other)
                                ELSE m.sparseMap[i]],
              raised |-> FALSE]
        ELSE applyOperation(m, other, func)

\* The field `key` of a record array, as an array.
FieldArray(sparse, key) == [i \in DOMAIN sparse |-> sparse[i][key]]

\* getSingle(key, sentinel): whether the call raised, the map it returned,
\* and what the storage of that map is: the view self._sparseMap[key] of
\* the storage of self (shares |-> key) or a new array (shares |-> "no").
\* The coverage index of the returned map is self._covIndexMap itself.
getSingle(m, key, sent) ==
    IF ~isRecArray(m)
    THEN [raised |-> TRUE, map |-> <<>>, shares |-> "no"]
    ELSE IF key = m.primary[1] /\ sent = <<>>
    THEN [raised |-> FALSE,
          map |-> <<HealSparseMap(m.covIndexMap, FieldArray(m.sparseMap, key),
                                  m.nsideSparse, "f8", <<>>,
                                  checkSentinel("f8", <<m.sentinel>>))>>,
          shares |-> key]
    ELSE LET _sentinel == checkSentinel("f8", sent)
             newSparseMap == [i \in DOMAIN m.sparseMap |->
                                 IF m.sparseMap[i][m.primary[1]] > m.sentinel
                                 THEN m.sparseMap[i][key]
                                 ELSE _sentinel]
         IN  [raised |-> FALSE,
              map |-> <<HealSparseMap(m.covIndexMap, newSparseMap,
                                      m.nsideSparse, "f8", <<>>,
                                      checkSentinel("f8", <<_sentinel>>))>>,
              shares |-> "no"]

\* convertHealpixMap(healpixMap, nsideCoverage, nest=True, sentinel), as
\* __init__ calls it, and the map __init__ builds from the result.
convertHealpixMap(healpixMap, nsCov, sent) ==
    LET ipnest      == NpWhere([p \in DOMAIN healpixMap |-> healpixMap[p] > UNSEEN])
        nsSparse    == Npix2Nside(Size(healpixMap))
        bs          == BitShift(nsSparse, nsCov)
        ipnestCov   == [k \in DOMAIN ipnest |-> RightShift(ipnest[k], bs)]
        covPix      == NpUnique(ipnestCov)
        nFinePerCov == Size(healpixMap) \div Nside2Npix(nsCov)
        marked      == Put([c \in 0 .. (Nside2Npix(nsCov) - 1) |-> 0], covPix,
                           [k \in DOMAIN covPix |-> (k + 1) * nFinePerCov])
        cov         == [c \in DOMAIN marked |-> marked[c] - c * nFinePerCov]
        sparse      == Put(Full((Size(covPix) + 1) * nFinePerCov, 0 + sent),
                           [k \in DOMAIN ipnest |-> ipnest[k] + cov[ipnestCov[k]]],
                           Take(healpixMap, ipnest))
    IN  HealSparseMap(cov, sparse, nsSparse, "f8", <<>>, checkSentinel("f8", <<sent>>))

\* utils.reduce_array(aux, reduction='max') on aux reshaped to
\* (nBlocks, nGroups, width): the maximum of each group of width consecutive
\* elements over its numbers, NaN for a group without one, flattened.  A
\* float is <<v>>, NaN is <<>>.
reduce_array(aux, nBlocks, nGroups, width) ==
    [j \in 0 .. (nBlocks * nGroups - 1) |->
        LET nums == {aux[j * width + t][1] : t \in {u \in 0 .. (width - 1) :
                                                     aux[j * width + u] # <<>>}}
        IN  IF nums = {} THEN <<>>
            ELSE <<CHOOSE x \in nums : \A y \in nums : y <= x>>]

\* One field of the degraded storage (the whole of it for a scalar map):
\* the slots whose primary value is the sentinel become NaN, the groups are
\* reduced, and what is left NaN becomes UNSEEN.
DegradeField(m, field, nBlocks, nGroups, width) ==
    LET FieldOf(v) == IF isRecArray(m) THEN v[field] ELSE v
        aux == [i \in DOMAIN m.sparseMap |->
                   IF PrimaryOf(m, m.sparseMap[i]) = m.sentinel THEN <<>>
                   ELSE <<FieldOf(m.sparseMap[i])>>]
        red == reduce_array(aux, nBlocks, nGroups, width)
    IN  [j \in DOMAIN red |-> IF red[j] = <<>> THEN UNSEEN ELSE red[j][1]]

\* The coverage index degrade builds: the covered coarse pixels, in
\* ascending order, get the blocks 1, 2, ...
DegradeIndexMap(m, nFinePerCov) ==
    LET covPix == NpWhere(coverageMask(m))
        marked == Put([c \in DOMAIN m.covIndexMap |-> 0], covPix,
                      [k \in DOMAIN covPix |-> (k + 1) * nFinePerCov])
    IN  [c \in DOMAIN m.covIndexMap |-> marked[c] - c * nFinePerCov]

\* degrade(nside_out, reduction='max'): whether the call raised, and the
\* map it returned.
degrade(m, nside_out) ==
    LET fail     == [raised |-> TRUE, map |-> <<>>]
        npop_pix == Size(NpWhere(coverageMask(m)))
        bs       == BitShift(nside_out, m.nsideCoverage)
        nGroups  == (nside_out \div m.nsideCoverage) * (nside_out \div m.nsideCoverage)
    IN  IF m.nsideSparse < nside_out THEN fail
        \* 2**bitShift is a float for a negative bitShift: np.zeros rejects it
        \* as a size, and reshape rejects the zero-length axis
        ELSE IF bs < 0 \/ nGroups = 0 THEN fail
        \* reshape((npop_pix + 1, nGroups, -1))
        ELSE IF Size(m.sparseMap) % ((npop_pix + 1) * nGroups) # 0 THEN fail
        ELSE
          LET nFinePerCov == 2 ^ bs
              width  == Size(m.sparseMap) \div ((npop_pix + 1) * nGroups)
              nOut   == (npop_pix + 1) * nGroups
              Field(f) == DegradeField(m, f, npop_pix + 1, nGroups, width)
              newIndexMap == DegradeIndexMap(m, nFinePerCov)
          IN  IF isRecArray(m)
              THEN \* newsparseMap[key] = aux needs equal lengths (or one element)
                   IF nOut # (npop_pix + 1) * nFinePerCov /\ nOut # 1 THEN fail
                   ELSE [raised |-> FALSE,
                         map |-> <<HealSparseMap(newIndexMap,
                                     [i \in 0 .. ((npop_pix + 1) * nFinePerCov - 1) |->
                                         [f \in {"a", "b"} |->
                                             Field(f)[IF nOut = 1 THEN 0 ELSE i]]],
                                     nside_out, "rec", m.primary,
                                     checkSentinel("f8", <<UNSEEN>>))>>]
              ELSE [raised |-> FALSE,
                    map |-> <<HealSparseMap(newIndexMap, Field("a"), nside_out,
                                            "f8", m.primary,
                                            checkSentinel("f8", <<UNSEEN>>))>>]

---------------------------------------------------------------------------
(* The state machine. *)

Self ==
    [nsideCoverage |-> nsideCoverage, nsideSparse |-> nsideSparse,
     dtype |-> dtype, primary |-> primary, sentinel |-> sentinel,
     bitShift |-> bitShift, covIndexMap |-> covIndexMap,
     sparseMap |-> sparseMap]

\* The arguments of a call; the ones a call does not take keep these values.
\* target is the object the method is called on ("self" or "derived");
\* returnsSelf tells that the call returned that very object, error is the
\* class of the exception a failed read raised.
NoArgs ==
    [op |-> "idle", pixel |-> <<>>, values |-> <<>>, isArray |-> TRUE,
     vdtype |-> "f8", nside_out |-> 0, maskMap |-> <<>>, maskBits |-> <<>>,
     func |-> "", other |-> 0, target |-> "self", otherClass |-> "int",
     inPlace |-> TRUE, key |-> "", newSentinel |-> <<>>, clobber |-> FALSE,
     pixels |-> <<>>, hdusRead |-> <<>>, returnsSelf |-> FALSE, error |-> ""]

\* No call of makeUniformRandoms yet.
NoRandoms ==
    [pc |-> "none", nRandom |-> 0, nLeft |-> 0, ctr |-> 0, raRand |-> <<>>,
     stored |-> {}, phiRange |-> <<>>, decRange |-> <<>>, rotated |-> FALSE]

\* No second map object.
NoDerived ==
    [is |-> "none", by |-> "", map |-> <<>>, covShared |-> FALSE, shares |-> "no"]

\* The slot values updateValues is given for a map of dtype dt.
SlotValues(dt) ==
    IF dt = "rec"
    THEN {[a |-> 1, b |-> UNSEEN], [a |-> UNSEEN, b |-> 1], [a |-> UNSEEN - 1, b |-> 1]}
    ELSE Values

\* The dense maps given to convertHealpixMap: UNSEEN everywhere but at a
\* subset of UpdatePixels, where they hold a valid value.
HealpixMaps(nsSparse) ==
    {[p \in 0 .. (Nside2Npix(nsSparse) - 1) |-> IF p \in S THEN 1 ELSE UNSEEN] :
        S \in {T \in SUBSET UpdatePixels : Cardinality(T) <= MaxWork}}

\* The mask maps given to applyMask: integer maps with sentinel 0 holding a
\* mask value at pixel 0 and one at pixel 4, and one map that is no integer
\* map.
MaskValues == {-1, 0, 1, 2}

MaskMapOf(nsCov, nsSparse, v0, v4) ==
    LET e == makeEmpty(nsCov, nsSparse, "i8", <<>>, <<0>>)
        r == updateValues(e, FromSeq(<<0, 4>>), FromSeq(<<v0, v4>>), TRUE, "i8")
    IN  [e EXCEPT !.covIndexMap = r.covIndexMap, !.sparseMap = r.sparseMap]

MaskMaps(nsCov, nsSparse) ==
    {MaskMapOf(nsCov, nsSparse, v0, v4) : v0 \in MaskValues, v4 \in MaskValues}
        \cup {makeEmpty(nsCov, nsSparse, "f8", <<>>, <<>>)}

MaskBits == {<<>>, <<1>>, <<2>>}

\* The constants and ufuncs of the in-place arithmetic.
Others == {1, 2}

Funcs == {"add", "subtract", "multiply"}

\* The state after construction of the map m, with n pixel entries spent and
\* the file f on disk.
StartOn(m, n, f) ==
    /\ nsideCoverage = m.nsideCoverage
    /\ nsideSparse = m.nsideSparse
    /\ dtype = m.dtype
    /\ primary = m.primary
    /\ sentinel = m.sentinel
    /\ bitShift = m.bitShift
    /\ covIndexMap = m.covIndexMap
    /\ sparseMap = m.sparseMap
    /\ old = m
    /\ call = NoArgs
    /\ raised = FALSE
    /\ ret = <<>>
    /\ grown = <<>>
    /\ used = n
    /\ derived = NoDerived
    /\ file = f
    /\ randoms = NoRandoms

StartWith(m, n) == StartOn(m, n, <<>>)

\* HealSparseMap.makeEmpty(nsideCoverage, nsideSparse, dtype)
InitEmpty(cfgs) ==
    \E cfg \in cfgs :
        StartWith(makeEmpty(cfg[1], cfg[2], cfg[3],
                            IF cfg[3] = "rec" THEN <<"a">> ELSE <<>>, <<>>), 0)

\* HealSparseMap(healpixMap=..., nsideCoverage=...); the valid pixels of
\* the dense map count as pixel entries spent.
InitHealpix(cfgs) ==
    \E cfg \in {c \in cfgs : c[3] = "f8"} :
        \E h \in HealpixMaps(cfg[2]) :
            StartWith(convertHealpixMap(h, cfg[1], UNSEEN),
                      Cardinality({p \in DOMAIN h : h[p] > UNSEEN}))

Frame ==
    UNCHANGED <<nsideCoverage, nsideSparse, dtype, primary, sentinel, bitShift,
                derived, file, randoms>>

\* updateValues(pixel, values) with a values array of the storage dtype, of
\* the length of pixel or one element short.
UpdateValues ==
    /\ call.op = "idle"
    /\ \E n \in 0 .. (MaxWork - used) :
      \E pixel \in [0 .. (n - 1) -> UpdatePixels] :
        \E nv \in {k \in {n - 1, n} : k >= 0} :
          \E values \in [0 .. (nv - 1) -> SlotValues(dtype)] :
            LET r == updateValues(Self, pixel, values, TRUE, dtype)
            IN  /\ covIndexMap' = r.covIndexMap
                /\ sparseMap' = r.sparseMap
                /\ raised' = r.raised
                /\ old' = Self
                /\ call' = [NoArgs EXCEPT !.op = "updateValues",
                                          !.pixel = pixel, !.values = values,
                                          !.vdtype = dtype]
                /\ ret' = <<>>
                /\ grown' = r.newCovPix
                /\ used' = used + n
                /\ Frame

\* updateValues(pixel, values) with values that are no numpy array, or an
\* array of another dtype.
UpdateValuesBadType ==
    /\ call.op = "idle"
    /\ \E n \in 0 .. (MaxWork - used) :
      \E pixel \in [0 .. (n - 1) -> UpdatePixels] :
        \E values \in [0 .. (n - 1) -> {1}] :
          \E kind \in {<<FALSE, dtype>>, <<TRUE, "i4">>} :
            LET r == updateValues(Self, pixel, values, kind[1], kind[2])
            IN  /\ covIndexMap' = r.covIndexMap
                /\ sparseMap' = r.sparseMap
                /\ raised' = r.raised
                /\ old' = Self
                /\ call' = [NoArgs EXCEPT !.op = "updateValues",
                                          !.pixel = pixel, !.values = values,
                                          !.isArray = kind[1],
                                          !.vdtype = kind[2]]
                /\ ret' = <<>>
                /\ grown' = r.newCovPix
                /\ used' = used + n
                /\ Frame

\* degrade(nside_out, 'max'): self is left alone, a new map is returned.
Degrade ==
    /\ call.op = "idle"
    /\ \E nside_out \in 1 .. (nsideSparse + 1) :
        LET r == degrade(Self, nside_out)
        IN  /\ raised' = r.raised
            /\ old' = Self
            /\ ret' = r.map
            /\ call' = [NoArgs EXCEPT !.op = "degrade", !.nside_out = nside_out]
            /\ grown' = <<>>
            /\ UNCHANGED <<covIndexMap, sparseMap, used>>
            /\ Frame

\* applyMask(maskMap, maskBits, inPlace=True)
ApplyMask ==
    /\ call.op = "idle"
    /\ used < MaxWork
    /\ \E maskMap \in MaskMaps(nsideCoverage, nsideSparse), maskBits \in MaskBits :
        LET r == applyMask(Self, maskMap, maskBits)
        IN  /\ covIndexMap' = r.covIndexMap
            /\ sparseMap' = r.sparseMap
            /\ raised' = r.raised
            /\ old' = Self
            /\ call' = [NoArgs EXCEPT !.op = "applyMask",
                                      !.maskMap = <<maskMap>>,
                                      !.maskBits = maskBits,
                                      !.returnsSelf = ~r.raised]
            /\ ret' = <<>>
            /\ grown' = r.newCovPix
            /\ used' = used + 1
            /\ Frame

\* self += other, self -= other, self *= other
InPlaceOperation ==
    /\ call.op = "idle"
    /\ used < MaxWork
    /\ \E func \in Funcs, other \in Others :
        LET r == applyOperation(Self, other, func)
        IN  /\ sparseMap' = r.sparseMap
            /\ raised' = r.raised
            /\ old' = Self
            /\ call' = [NoArgs EXCEPT !.op = "applyOperation",
                                      !.func = func, !.other = other,
                                      !.returnsSelf = ~r.raised]
            /\ ret' = <<>>
            /\ grown' = <<>>
            /\ used' = used + 1
            /\ UNCHANGED covIndexMap
            /\ Frame

\* The call returns (or its exception propagates): the caller is free to
\* make the next call.  The engine is synchronous and single-threaded, one
\* call runs at a time.
Return ==
    /\ call.op # "idle"
    /\ call' = NoArgs
    /\ old' = Self
    /\ raised' = FALSE
    /\ ret' = <<>>
    /\ grown' = <<>>
    /\ UNCHANGED <<covIndexMap, sparseMap, used>>
    /\ Frame

\* The (nsideCoverage, nsideSparse, dtype) of the maps explored.
Configs == {<<1, 2, "f8">>}

\* makeEmpty followed by any sequence of updateValues calls.
Init == InitEmpty(Configs)

Next ==
    \/ UpdateValues
    \/ Return

Spec == Init /\ [][Next]_vars

\* The same for a scalar map and a record map of primary field a.
InitRec == InitEmpty(Configs \cup {<<1, 2, "rec">>})

NextRec ==
    \/ UpdateValues
    \/ Return

SpecRec == InitRec /\ [][NextRec]_vars

\* m.coverageMap: self is left alone, the array is returned.
CoverageMap ==
    /\ call.op = "idle"
    /\ ret' = <<coverageMap(Self)>>
    /\ call' = [NoArgs EXCEPT !.op = "coverageMap"]
    /\ old' = Self
    /\ raised' = FALSE
    /\ grown' = <<>>
    /\ UNCHANGED <<covIndexMap, sparseMap, used>>
    /\ Frame

NextCov ==
    \/ UpdateValues
    \/ CoverageMap
    \/ Return

SpecCov == InitRec /\ [][NextCov]_vars

\* The same with the calls updateValues rejects for the type of values.
NextErr ==
    \/ UpdateValues
    \/ UpdateValuesBadType
    \/ Return

SpecErr == Init /\ [][NextErr]_vars

\* makeEmpty or convertHealpixMap followed by any sequence of updateValues,
\* applyMask and in-place arithmetic calls.
InitAny == InitEmpty(Configs) \/ InitHealpix(Configs)

NextAny ==
    \/ UpdateValues
    \/ ApplyMask
    \/ InPlaceOperation
    \/ Return

SpecAny == InitAny /\ [][NextAny]_vars

\* Maps of nsideCoverage 2, for the resolutions degrade is asked for.
InitDegrade == InitEmpty({<<2, 4, "f8">>})

NextDegrade ==
    \/ UpdateValues
    \/ Degrade
    \/ Return

SpecDegrade == InitDegrade /\ [][NextDegrade]_vars

---------------------------------------------------------------------------
(* Two map objects.  self is the map of the variables above; derived is    *)
(* the map a copy-returning call on self returned.  derived.map holds the  *)
(* contents of its arrays; derived.shares tells that its storage is the    *)
(* very array of self ("all") or the view self._sparseMap[key] of it (the  *)
(* key), so that a store through one object is seen through the other;     *)
(* derived.covShared tells the same of the coverage index, derived.by      *)
(* names the method that returned the object.                              *)

Targets == {"self"} \cup (IF derived.is = "new" THEN {"derived"} ELSE {})

TargetMap(t) == IF t = "self" THEN Self ELSE derived.map[1]

NewDerived(by, m, covShared, shares) ==
    [is |-> "new", by |-> by, map |-> <<m>>, covShared |-> covShared,
     shares |-> shares]

\* Faulty variant: the ufunc result is stored in the storage of self.
OperatorCopy_NoCopy(m, sparse) ==
    NewDerived("operator",
               HealSparseMap(m.covIndexMap, sparse, m.nsideSparse, m.dtype,
                             <<>>, checkSentinel(m.dtype, <<m.sentinel>>)),
               TRUE, "all")

\* The map a copy-returning operator returns: the coverage index of m
\* itself, the copy of the storage the ufunc wrote into.
OperatorCopy(m, sparse) ==
    NewDerived("operator",
               HealSparseMap(m.covIndexMap, sparse, m.nsideSparse, m.dtype,
                             <<>>, checkSentinel(m.dtype, <<m.sentinel>>)),
               TRUE, "no")

Prefix(a, n) == [i \in 0 .. (n - 1) |-> a[i]]

\* What a view of kind shares shows of the array sparse, and the array
\* after the view has been assigned a.
ViewOf(sparse, shares) ==
    IF shares = "all" THEN sparse ELSE FieldArray(sparse, shares)

StoreView(sparse, shares, a) ==
    IF shares = "all" THEN a
    ELSE [i \in DOMAIN sparse |-> [sparse[i] EXCEPT ![shares] = a[i]]]

\* The arrays of both objects after a call on object t that left it with
\* cov and sparse.  The call stored in place into the storage t held (the
\* leading slots of sparse); when rebinds, it then bound new arrays to
\* t._covIndexMap and t._sparseMap, which ends the sharing.
Store(t, cov, sparse, rebinds) ==
    LET stored == Prefix(sparse, Size(TargetMap(t).sparseMap))
        unshare(d) == [d EXCEPT !.shares = IF rebinds THEN "no" ELSE @,
                                !.covShared = IF rebinds THEN FALSE ELSE @]
    IN  IF t = "self"
        THEN /\ covIndexMap' = cov
             /\ sparseMap' = sparse
             /\ derived' =
                   IF derived.is = "new" /\ derived.shares # "no"
                   THEN unshare([derived EXCEPT !.map =
                           <<[@[1] EXCEPT !.sparseMap =
                                 ViewOf(stored, derived.shares)]>>])
                   ELSE unshare(derived)
        ELSE /\ covIndexMap' = covIndexMap
             /\ sparseMap' = IF derived.shares # "no"
                             THEN StoreView(sparseMap, derived.shares, stored)
                             ELSE sparseMap
             /\ derived' = unshare([derived EXCEPT !.map =
                              <<[@[1] EXCEPT !.covIndexMap = cov,
                                             !.sparseMap = sparse]>>])

\* self and derived as they are when a call begins.
History == [self |-> Self, derived |-> derived]

FrameTwo ==
    UNCHANGED <<nsideCoverage, nsideSparse, dtype, primary, sentinel, bitShift,
                file, randoms>>

\* The six operators modelled, the constants they are given (class and
\* value; "str" stands for every class that is no number), the mask maps
\* and the keys and sentinels of getSingle.
Operators == Funcs \cup {"bitwise_and", "bitwise_xor", "bitwise_or"}

Operands == {<<"int", -1>>, <<"float", 1>>, <<"str", 0>>}

\* The pixel ids given to updateValues: one of coarse pixel 0, one of
\* coarse pixel 1.
TwoPixels == {0, 4}

TwoMasks(nsCov, nsSparse) ==
    {MaskMapOf(nsCov, nsSparse, 1, 0), makeEmpty(nsCov, nsSparse, "f8", <<>>, <<>>)}

Keys == {"a", "b"}

Sentinels == {<<>>, <<UNSEEN - 3>>}

\* t.updateValues(pixel, values) with well-formed values.
UpdateValuesOn ==
    /\ call.op = "idle"
    /\ \E t \in Targets, n \in 1 .. (MaxWork - used) :
        \E pixel \in [0 .. (n - 1) -> TwoPixels] :
          \E values \in [0 .. (n - 1) -> SlotValues(TargetMap(t).dtype)] :
            LET r == updateValues(TargetMap(t), pixel, values, TRUE,
                                  TargetMap(t).dtype)
            IN  /\ Store(t, r.covIndexMap, r.sparseMap, Size(r.newCovPix) > 0)
                /\ raised' = r.raised
                /\ old' = History
                /\ call' = [NoArgs EXCEPT !.op = "updateValues", !.target = t,
                                          !.pixel = pixel, !.values = values,
                                          !.vdtype = TargetMap(t).dtype]
                /\ ret' = <<>>
                /\ grown' = r.newCovPix
                /\ used' = used + n
                /\ FrameTwo

\* t + c, t += c, t & c, ...: the copy-returning operators are applied to
\* self and their result becomes derived.
Operator ==
    /\ call.op = "idle"
    /\ used < MaxWork
    /\ \E t \in Targets, func \in Operators, operand \in Operands,
          inPlace \in BOOLEAN :
        /\ inPlace \/ t = "self"
        /\ LET m == TargetMap(t)
               r == applyOperationClass(m, operand[2], operand[1], func)
           IN  /\ IF r.raised
                  THEN UNCHANGED <<covIndexMap, sparseMap, derived>>
                  ELSE IF inPlace
                  THEN Store(t, m.covIndexMap, r.sparseMap, FALSE)
                  ELSE /\ UNCHANGED <<covIndexMap, sparseMap>>
                       /\ derived' = OperatorCopy(m, r.sparseMap)
               /\ raised' = r.raised
               /\ old' = History
               /\ call' = [NoArgs EXCEPT !.op = "operator", !.target = t,
                                         !.func = func, !.other = operand[2],
                                         !.otherClass = operand[1],
                                         !.inPlace = inPlace,
                                         !.returnsSelf = inPlace /\ ~r.raised]
               /\ ret' = <<>>
               /\ grown' = <<>>
               /\ used' = used + 1
               /\ FrameTwo

\* t.applyMask(maskMap, inPlace=...): the copy is made of self and becomes
\* derived.
ApplyMaskOn ==
    /\ call.op = "idle"
    /\ used < MaxWork
    /\ \E t \in Targets, maskMap \in TwoMasks(nsideCoverage, nsideSparse),
          inPlace \in BOOLEAN :
        /\ inPlace \/ t = "self"
        /\ LET m == TargetMap(t)
               r == applyMask(m, maskMap, <<>>)
           IN  /\ IF r.raised
                  THEN UNCHANGED <<covIndexMap, sparseMap, derived>>
                  ELSE IF inPlace
                  THEN Store(t, r.covIndexMap, r.sparseMap, FALSE)
                  ELSE /\ UNCHANGED <<covIndexMap, sparseMap>>
                       /\ derived' = NewDerived("applyMask",
                              HealSparseMap(r.covIndexMap, r.sparseMap,
                                            m.nsideSparse, m.dtype, m.primary,
                                            checkSentinel(m.dtype, <<m.sentinel>>)),
                              FALSE, "no")
               /\ raised' = r.raised
               /\ old' = History
               /\ call' = [NoArgs EXCEPT !.op = "applyMask", !.target = t,
                                         !.maskMap = <<maskMap>>,
                                         !.inPlace = inPlace,
                                         !.returnsSelf = inPlace /\ ~r.raised]
               /\ ret' = <<>>
               /\ grown' = <<>>
               /\ used' = used + 1
               /\ FrameTwo

\* self.getSingle(key, sentinel), self[key]: the result becomes derived.
GetSingle ==
    /\ call.op = "idle"
    /\ used < MaxWork
    /\ \E key \in Keys, newSentinel \in Sentinels :
        LET r == getSingle(Self, key, newSentinel)
        IN  /\ derived' = IF r.raised THEN derived
                          ELSE NewDerived("getSingle", r.map[1], TRUE, r.shares)
            /\ raised' = r.raised
            /\ old' = History
            /\ call' = [NoArgs EXCEPT !.op = "getSingle", !.key = key,
                                      !.newSentinel = newSentinel]
            /\ ret' = <<>>
            /\ grown' = <<>>
            /\ used' = used + 1
            /\ UNCHANGED <<covIndexMap, sparseMap>>
            /\ FrameTwo

\* A float map, a record map and an integer map of sentinel 0.
InitTwo ==
    \/ InitEmpty(Configs \cup {<<1, 2, "rec">>})
    \/ StartWith(makeEmpty(1, 2, "i8", <<>>, <<0>>), 0)

NextTwo ==
    \/ UpdateValuesOn
    \/ Operator
    \/ ApplyMaskOn
    \/ GetSingle
    \/ Return

SpecTwo == InitTwo /\ [][NextTwo]_vars

---------------------------------------------------------------------------
(* Writing and reading.  The file on disk is <<>> when there is none, else *)
(* <<hdus>> with hdus the sequence of its extensions, the first one being  *)
(* extension 0.  The file library is taken to store and return arrays and  *)
(* header values as they are.  A header is a record whose optional keys    *)
(* hold <<>> when absent and <<value>> when present.                       *)

\* fitsio.write(filename, data, header=..., extname=..., clobber=...): a new
\* file with this one extension, or the extension appended to the file.
fitsioWrite(f, hdu, clobber) ==
    IF clobber \/ f = <<>> THEN <<(<<hdu>>)>> ELSE <<Append(f[1], hdu)>>

\* The first extension of the file named ext.
fitsioRead(f, ext) ==
    LET k == CHOOSE i \in 1 .. Len(f[1]) :
                /\ f[1][i].extname = ext
                /\ \A j \in 1 .. (i - 1) : f[1][j].extname # ext
    IN  f[1][k]

CovHdu(m) ==
    [extname |-> "COV", exttype |-> "IMAGE_HDU", dtype |-> "i8",
     data |-> m.covIndexMap,
     header |-> [PIXTYPE |-> "HEALSPARSE", NSIDE |-> m.nsideCoverage,
                 SENTINEL |-> <<>>, PRIMARY |-> <<>>]]

SparseHdu(m) ==
    [extname |-> "SPARSE",
     exttype |-> IF m.dtype = "rec" THEN "BINARY_TBL" ELSE "IMAGE_HDU",
     dtype |-> m.dtype,
     data |-> m.sparseMap,
     header |-> [PIXTYPE |-> "HEALSPARSE", NSIDE |-> m.nsideSparse,
                 SENTINEL |-> <<m.sentinel>>,
                 PRIMARY |-> IF isRecArray(m) THEN m.primary ELSE <<>>]]

\* Faulty variant: the coverage extension is appended to the file there is.
write_Append(m, f, clobber) ==
    IF f # <<>> /\ ~clobber
    THEN [raised |-> TRUE, file |-> f]
    ELSE [raised |-> FALSE,
          file |-> fitsioWrite(fitsioWrite(f, CovHdu(m), FALSE),
                               SparseHdu(m), FALSE)]

\* Faulty variant: the header of the value extension carries no SENTINEL.
write_NoSentinel(m, f, clobber) ==
    IF f # <<>> /\ ~clobber
    THEN [raised |-> TRUE, file |-> f]
    ELSE [raised |-> FALSE,
          file |-> fitsioWrite(
                      fitsioWrite(f, CovHdu(m), TRUE),
                      [SparseHdu(m) EXCEPT !.header.SENTINEL = <<>>], FALSE)]

\* HealSparseMap.write(filename, clobber) with f the file of that name: the
\* outcome and the file afterwards.
write(m, f, clobber) ==
    IF f # <<>> /\ ~clobber
    THEN [raised |-> TRUE, file |-> f]
    ELSE [raised |-> FALSE,
          file |-> fitsioWrite(fitsioWrite(f, CovHdu(m), TRUE),
                               SparseHdu(m), FALSE)]

\* Faulty variant: np.searchsorted(a, v, side='right')
NpSearchSorted_Right(a, v) == Cardinality({i \in DOMAIN a : a[i] <= v})

\* np.searchsorted(a, v) for an ascending a
NpSearchSorted(a, v) == Cardinality({i \in DOMAIN a : a[i] < v})

\* np.clip(x, lo, hi) = minimum(maximum(x, lo), hi)
NpClip(x, lo, hi) ==
    LET y == IF x < lo THEN lo ELSE x
    IN  IF y > hi THEN hi ELSE y

\* np.sort(a)
NpSort(a) ==
    [i \in DOMAIN a |->
        CHOOSE v \in {a[j] : j \in DOMAIN a} :
            /\ Cardinality({j \in DOMAIN a : a[j] < v}) <= i
            /\ i < Cardinality({j \in DOMAIN a : a[j] <= v})]

\* a[idx] with the negative indices of numpy: whether it raises IndexError,
\* and the elements it takes when it does not.
IndexOk(a, idx) ==
    \A k \in DOMAIN idx : idx[k] >= 0 - Size(a) /\ idx[k] < Size(a)

TakeWrap(a, idx) ==
    [k \in DOMAIN idx |-> a[IF idx[k] < 0 THEN idx[k] + Size(a) ELSE idx[k]]]

\* What _readHealSparseFile fails with.
ReadError(error, hdusRead) ==
    [raised |-> TRUE, error |-> error, hdusRead |-> hdusRead,
     covIndexMap |-> <<>>, sparseMap |-> <<>>, nsideSparse |-> 0,
     dtype |-> "", primary |-> <<>>, sentinel |-> 0]

\* HealSparseMap._readHealSparseFile(filename, pixels): pixels is <<>> for
\* None, else <<the array of coarse pixels asked for>>.
readHealSparseFile(f, pixels) ==
    LET cov   == fitsioRead(f, "COV").data
        hdu   == fitsioRead(f, "SPARSE")
        sHdr  == hdu.header
        nsSparse == sHdr.NSIDE
        sent  == IF sHdr.SENTINEL # <<>> THEN sHdr.SENTINEL[1] ELSE UNSEEN
    IN  IF pixels = <<>>
        THEN [raised |-> FALSE, error |-> "",
              hdusRead |-> <<"COV", "SPARSE">>,
              covIndexMap |-> cov, sparseMap |-> hdu.data,
              nsideSparse |-> nsSparse, dtype |-> hdu.dtype,
              primary |-> sHdr.PRIMARY, sentinel |-> sent]
        ELSE
        LET _pixels == pixels[1]
            nsCov   == Npix2Nside(Size(cov))
            nFinePerCov == 2 ^ BitShift(nsSparse, nsCov)
            covIndexMapTemp == [c \in DOMAIN cov |-> cov[c] + c * nFinePerCov]
            covPix  == NpWhere([c \in DOMAIN cov |->
                                   covIndexMapTemp[c] >= nFinePerCov])
            found   == [k \in DOMAIN _pixels |->
                           NpClip(NpSearchSorted(covPix, _pixels[k]),
                                  0, Size(covPix) - 1)]
            ok      == NpWhere([k \in DOMAIN _pixels |->
                                   TakeWrap(covPix, found)[k] = _pixels[k]])
            sub     == NpSort(Take(found, ok))
            loaded  == Take(covPix, sub)
            block(i) == IF i = 0 THEN 0 ELSE covIndexMapTemp[loaded[i - 1]]
            sparse  == [o \in 0 .. ((Size(sub) + 1) * nFinePerCov - 1) |->
                           hdu.data[block(o \div nFinePerCov)
                                       + (o % nFinePerCov)]]
            placed  == Put(Full(Size(cov), 0), loaded,
                           [i \in DOMAIN sub |-> (i + 1) * nFinePerCov])
        IN  IF Size(NpUnique(_pixels)) < Size(_pixels)
            THEN ReadError("RuntimeError: must be unique", <<"COV">>)
            ELSE IF ~IndexOk(covPix, found)
            THEN ReadError("IndexError", <<"COV", "SPARSE">>)
            ELSE IF Size(ok) = 0
            THEN ReadError("RuntimeError: none in the coverage map",
                           <<"COV", "SPARSE">>)
            ELSE [raised |-> FALSE, error |-> "",
                  hdusRead |-> <<"COV", "SPARSE">>,
                  covIndexMap |-> [c \in DOMAIN cov |->
                                      placed[c] - c * nFinePerCov],
                  sparseMap |-> sparse,
                  nsideSparse |-> nsSparse, dtype |-> hdu.dtype,
                  primary |-> IF hdu.exttype = "IMAGE_HDU" THEN <<>>
                              ELSE sHdr.PRIMARY,
                  sentinel |-> sent]

\* HealSparseMap.read(filename, pixels=pixels) of a file in the healsparse
\* format: the header of extension 1 is read first.
read(f, pixels) ==
    LET hdr == f[1][2].header
        r   == readHealSparseFile(f, pixels)
    IN  IF hdr.PIXTYPE # "HEALSPARSE"
        THEN [raised |-> TRUE, error |-> "RuntimeError: format",
              hdusRead |-> <<"header">>, map |-> <<>>]
        ELSE [raised |-> r.raised, error |-> r.error,
              hdusRead |-> <<"header">> \o r.hdusRead,
              map |-> IF r.raised THEN <<>>
                      ELSE <<HealSparseMap(r.covIndexMap, r.sparseMap,
                                           r.nsideSparse, r.dtype, r.primary,
                                           checkSentinel(r.dtype,
                                                         <<r.sentinel>>))>>]

---------------------------------------------------------------------------
(* The map and its file: updateValues, applyMask and the in-place          *)
(* operators change the map, write stores it, read builds a map from the   *)
(* file and leaves both as they are.                                       *)

\* The map and the file as they are when write or read begins.
OnDisk == [self |-> Self, file |-> file]

\* The pixels arguments of read: None, and lists of coarse pixels that are
\* covered or not, in and out of order, repeated, empty.
PixelLists ==
    {<<0>>, <<1, 0>>, <<0, 2>>, <<3, 1>>, <<5, 3>>, <<0, 0>>, <<>>}

Requests == {<<>>} \cup {<<FromSeq(l)>> : l \in PixelLists}

\* A file an earlier map of the same kind was written to: pixel 9 only.
EarlierFile(m) ==
    LET slot == CHOOSE v \in SlotValues(m.dtype) :
                    PrimaryOf(m, v) > m.sentinel
        r    == updateValues(m, FromSeq(<<9>>), FromSeq(<<slot>>), TRUE,
                             m.dtype)
    IN  write([m EXCEPT !.covIndexMap = r.covIndexMap,
                        !.sparseMap = r.sparseMap], <<>>, FALSE).file

Write ==
    /\ call.op = "idle"
    /\ used < MaxWork
    /\ \E clobber \in BOOLEAN :
        LET r == write(Self, file, clobber)
        IN  /\ file' = r.file
            /\ raised' = r.raised
            /\ call' = [NoArgs EXCEPT !.op = "write", !.clobber = clobber]
    /\ old' = OnDisk
    /\ ret' = <<>>
    /\ grown' = <<>>
    /\ used' = used + 1
    /\ UNCHANGED <<nsideCoverage, nsideSparse, dtype, primary, sentinel,
                   bitShift, covIndexMap, sparseMap, derived, randoms>>

Read ==
    /\ call.op = "idle"
    /\ file # <<>>
    /\ \E pixels \in Requests :
        LET r == read(file, pixels)
        IN  /\ ret' = r.map
            /\ raised' = r.raised
            /\ call' = [NoArgs EXCEPT !.op = "read", !.pixels = pixels,
                                      !.error = r.error,
                                      !.hdusRead = r.hdusRead]
    /\ old' = OnDisk
    /\ grown' = <<>>
    /\ UNCHANGED <<covIndexMap, sparseMap, used>>
    /\ Frame

\* A record map with the default sentinel or an integer map with sentinel
\* 0, and no file or the earlier one, which took one pixel entry and one
\* write.
InitFile ==
    \E m \in {makeEmpty(1, 2, "rec", <<"a">>, <<>>),
              makeEmpty(1, 2, "i8", <<>>, <<0>>)} :
        \/ StartOn(m, 0, <<>>)
        \/ StartOn(m, 2, EarlierFile(m))

NextFile ==
    \/ UpdateValues
    \/ ApplyMask
    \/ InPlaceOperation
    \/ Write
    \/ Read
    \/ Return

SpecFile == InitFile /\ [][NextFile]_vars

---------------------------------------------------------------------------
(* makeUniformRandoms (src/healsparse/healSparseRandoms.py).  Angles are   *)
(* integers, in milliradians.  The geometry of healpy is given for the     *)
(* resolutions explored: coverage nside 1, and the fine pixels of nside 2  *)
(* that stand for the points a sample can fall on.  A sample is kept as    *)
(* the fine pixel it falls in, which is all getValueRaDec reads of it.     *)

\* np.pi
Pi == 3142

\* minGen and maxGen of makeUniformRandoms
minGen == 10000

maxGen == 1000000

\* Largest nRandom asked for.
MaxRandom == 2

\* np.min / np.max of a set of numbers
NpMin(S) == CHOOSE x \in S : \A y \in S : x <= y

NpMax(S) == CHOOSE x \in S : \A y \in S : x >= y

\* hp.pix2ang(1, c, nest=True): longitude phi, and latitude pi/2 - theta, of
\* the centre of base pixel c.
Pix2AngPhi(c) ==
    IF c \in 4 .. 7 THEN ((c - 4) * Pi) \div 2
    ELSE ((2 * (c % 4) + 1) * Pi) \div 4

Pix2AngDec(c) == IF c < 4 THEN 730 ELSE IF c < 8 THEN 0 ELSE 0 - 730

\* hp.nside2resol(nside) = sqrt(4 pi / (12 nside^2))
Nside2Resol(nside) == 1023 \div nside

\* The fine pixels samples are drawn in: of nside 2, the south child of
\* base pixels 0 and 3 and the east and west child of base pixel 4, which
\* is centred on longitude 0.
RandomPixels == {0, 12, 17, 18}

\* The longitudes and latitudes fine pixel g spans.
PixelExtent(g) ==
    CASE g = 0  -> [phi |-> <<393, 1178>>,  dec |-> <<0, 730>>]
      [] g = 12 -> [phi |-> <<5105, 5890>>, dec |-> <<0, 730>>]
      [] g = 17 -> [phi |-> <<0, 785>>,     dec |-> <<0 - 340, 340>>]
      [] g = 18 -> [phi |-> <<5498, 6284>>, dec |-> <<0 - 340, 340>>]

\* raRange, decRange and rotated of makeUniformRandoms, lines 80-107.
SamplingRange(m) ==
    LET covPix == {c \in DOMAIN m.covIndexMap : coverageMask(m)[c]}
        covPhi == {Pix2AngPhi(c) : c \in covPix}
        covDec == {Pix2AngDec(c) : c \in covPix}
        extraBoundary == 2 * Nside2Resol(m.nsideCoverage)
        raRange == <<NpClip(NpMin(covPhi) - extraBoundary, 0, 2 * Pi),
                     NpClip(NpMax(covPhi) + extraBoundary, 0, 2 * Pi)>>
        decRange == <<NpClip(NpMin(covDec) - extraBoundary,
                             0 - (Pi \div 2), Pi \div 2),
                      NpClip(NpMax(covDec) + extraBoundary,
                             0 - (Pi \div 2), Pi \div 2)>>
        covPhiRot == {IF phi + Pi > 2 * Pi THEN phi + Pi - 2 * Pi
                      ELSE phi + Pi : phi \in covPhi}
        raRangeRot == <<NpClip(NpMin(covPhiRot) - extraBoundary, 0, 2 * Pi),
                        NpClip(NpMax(covPhiRot) + extraBoundary, 0, 2 * Pi)>>
        rotated == (raRangeRot[2] - raRangeRot[1])
                      < (raRange[2] - raRange[1]) - 100
    IN  [phiRange |-> IF rotated THEN raRangeRot ELSE raRange,
         decRange |-> decRange,
         rotated  |-> rotated]

\* Whether the intervals a and b share more than a point.
Overlap(a, b) == a[1] < b[2] /\ b[1] < a[2]

\* Whether rng.uniform over the ranges of r yields points of fine pixel g:
\* phi is drawn in r.phiRange and, when r.rotated, turned back by pi (lines
\* 125-134).
CanFallIn(g, r) ==
    LET e   == PixelExtent(g)
        lo  == IF r.rotated THEN (e.phi[1] + Pi) % (2 * Pi) ELSE e.phi[1]
        hi  == lo + (e.phi[2] - e.phi[1])
    IN  /\ Overlap(e.dec, r.decRange)
        /\ \/ Overlap(<<lo, hi>>, r.phiRange)
           \/ Overlap(<<lo - 2 * Pi, hi - 2 * Pi>>, r.phiRange)

\* a[lo:hi] = vals: the indices stored and the array afterwards; numpy cuts
\* the slice at the end of a and raises when vals has another length.
SliceIndices(a, lo, hi) ==
    {i \in DOMAIN a : lo <= i /\ i < hi}

SliceAssign(a, lo, hi, vals) ==
    [i \in DOMAIN a |-> IF lo <= i /\ i < hi THEN vals[i - lo] ELSE a[i]]

\* The maps randoms are made for: every pixel of RandomPixels valid, only
\* covered, or left alone.
RandomMaps ==
    {LET pix == FromSeq(SortedSeq(V \cup C))
         e   == makeEmpty(1, 2, "f8", <<>>, <<>>)
         r   == updateValues(e, pix,
                             [k \in DOMAIN pix |->
                                 IF pix[k] \in V THEN 1 ELSE UNSEEN],
                             TRUE, "f8")
     IN  [e EXCEPT !.covIndexMap = r.covIndexMap, !.sparseMap = r.sparseMap] :
        V \in SUBSET RandomPixels, C \in SUBSET RandomPixels}

\* makeUniformRandoms(self, nRandom) up to the loop test: np.min of line 88
\* raises ValueError when no coarse pixel is covered.
MakeUniformRandoms ==
    /\ call.op = "idle"
    /\ randoms.pc = "none"
    /\ \E nRandom \in 0 .. MaxRandom :
        IF \A c \in DOMAIN covIndexMap : ~coverageMask(Self)[c]
        THEN /\ raised' = TRUE
             /\ randoms' = [NoRandoms EXCEPT !.pc = "raised",
                                             !.nRandom = nRandom]
        ELSE LET r == SamplingRange(Self)
             IN  /\ raised' = FALSE
                 /\ randoms' = [pc |-> "loop", nRandom |-> nRandom,
                                nLeft |-> nRandom, ctr |-> 0,
                                raRand |-> Full(nRandom, 0 - 1),
                                stored |-> {},
                                phiRange |-> r.phiRange,
                                decRange |-> r.decRange,
                                rotated |-> r.rotated]
    /\ call' = [NoArgs EXCEPT !.op = "makeUniformRandoms"]
    /\ old' = Self
    /\ ret' = <<>>
    /\ grown' = <<>>
    /\ UNCHANGED <<nsideCoverage, nsideSparse, dtype, primary, sentinel,
                   bitShift, covIndexMap, sparseMap, used, derived, file>>

\* One pass of the loop, lines 121-146.  Of the nGen points drawn the loop
\* reads the valid ones up to the nLeft-th and whether there are more: the
\* batch is given by at most nLeft + 1 of its points, in the order drawn.
\* A pass that keeps no point leaves every local as it was.
Iterate ==
    /\ randoms.pc = "loop"
    /\ randoms.nLeft > 0
    /\ LET nGen   == NpClip(randoms.nLeft * 2, minGen, maxGen)
           points == {g \in RandomPixels : CanFallIn(g, randoms)}
       IN  \E k \in 0 .. (randoms.nLeft + 1) :
             /\ k <= nGen
             /\ \E raRandTemp \in [0 .. (k - 1) -> points] :
                 LET valid  == NpWhere(getValidMask(Self, raRandTemp))
                     nValid == IF Size(valid) > randoms.nLeft
                               THEN randoms.nLeft ELSE Size(valid)
                     vals   == [i \in 0 .. (nValid - 1) |->
                                   raRandTemp[valid[i]]]
                     lo     == randoms.ctr
                     hi     == randoms.ctr + nValid
                 IN  IF Cardinality(SliceIndices(randoms.raRand, lo, hi))
                           # nValid
                     THEN /\ raised' = TRUE
                          /\ randoms' = [randoms EXCEPT !.pc = "raised"]
                     ELSE /\ raised' = FALSE
                          /\ randoms' =
                               [randoms EXCEPT
                                   !.raRand = SliceAssign(@, lo, hi, vals),
                                   !.stored = @ \cup (lo .. (hi - 1)),
                                   !.ctr = @ + nValid,
                                   !.nLeft = @ - nValid]
    /\ UNCHANGED <<nsideCoverage, nsideSparse, dtype, primary, sentinel,
                   bitShift, covIndexMap, sparseMap, old, call, ret, grown,
                   used, derived, file>>

\* A pass of the loop that kept at least one point.
Progress == Iterate /\ randoms'.nLeft < randoms.nLeft

\* The loop test fails: the arrays are returned.
ExitLoop ==
    /\ randoms.pc = "loop"
    /\ randoms.nLeft <= 0
    /\ randoms' = [randoms EXCEPT !.pc = "returned"]
    /\ ret' = <<randoms.raRand>>
    /\ UNCHANGED <<nsideCoverage, nsideSparse, dtype, primary, sentinel,
                   bitShift, covIndexMap, sparseMap, old, call, raised, grown,
                   used, derived, file>>

InitRandoms == \E m \in RandomMaps : StartWith(m, 0)

NextRandoms ==
    \/ MakeUniformRandoms
    \/ Iterate
    \/ ExitLoop

\* Fair sampling: when a pass of the loop can keep a point, one eventually
\* does; and the function returns once the loop test fails.
SpecRandoms ==
    InitRandoms /\ [][NextRandoms]_vars
        /\ WF_vars(Progress) /\ WF_vars(ExitLoop)

---------------------------------------------------------------------------
(* Vocabulary of the properties. *)

\* The fine pixels of the map.
FinePixels == 0 .. (Nside2Npix(nsideSparse) - 1)

CoarsePixels == DOMAIN covIndexMap

One(x) == [i \in {0} |-> x]

\* getValuePixel / validMask at one fine pixel.
ValueAt(m, g) == getValuePixel(m, One(g))[0]

ValidAt(m, g) == getValidMask(m, One(g))[0]

Parent(m, g) == RightShift(g, m.bitShift)

Covered(m) == {c \in DOMAIN m.covIndexMap : coverageMask(m)[c]}

\* The absolute offset of the block of coarse pixel c.
BlockOffset(m, c) == m.covIndexMap[c] + c * (2 ^ m.bitShift)

Elems(a) == {a[i] : i \in DOMAIN a}

Unique(a) == \A i, j \in DOMAIN a : i # j => a[i] # a[j]

\* The last call was updateValues with a values array of the storage dtype
\* and of the length of the pixel array.
WellFormedUpdate(c, dt) ==
    /\ c.op = "updateValues"
    /\ c.isArray
    /\ c.vdtype = dt
    /\ Size(c.values) = Size(c.pixel)

\* A resolution degrade has no meaning for: finer than nsideSparse, coarser
\* than nsideCoverage, or off the quad-tree levels between the two.
Unsupported(m, nside_out) ==
    \/ nside_out > m.nsideSparse
    \/ nside_out < m.nsideCoverage
    \/ ~\E k \in 0 .. 4 : nside_out * (2 ^ k) = m.nsideSparse
    \/ ~\E k \in 0 .. 4 : m.nsideCoverage * (2 ^ k) = nside_out

\* The fine pixels of m inside pixel q of resolution nside_out.
Group(m, nside_out, q) ==
    LET ratio == (m.nsideSparse \div nside_out) * (m.nsideSparse \div nside_out)
    IN  {g \in 0 .. (Nside2Npix(m.nsideSparse) - 1) : g \div ratio = q}

Max(S) == CHOOSE x \in S : \A y \in S : y <= x

---------------------------------------------------------------------------
(* C1: after updateValues(ids, values) with unique ids and a values array  *)
(* of the same length and the storage dtype, getValuePixel(ids[i]) is      *)
(* values[i] for every i, and getValuePixel(g) is unchanged for every fine *)
(* pixel g not in ids; the other pixels of a newly covered coarse pixel    *)
(* read as the sentinel.                                                   *)
C1_UpdateWritesExactly ==
    (WellFormedUpdate(call, dtype) /\ Unique(call.pixel)) =>
        /\ ~raised
        /\ \A i \in DOMAIN call.pixel :
              ValueAt(Self, call.pixel[i]) = call.values[i]
        /\ \A g \in FinePixels \ Elems(call.pixel) :
              /\ ValueAt(Self, g) = ValueAt(old, g)
              /\ Parent(Self, g) \in Elems(grown) =>
                    ValueAt(Self, g) = EmptySlot(dtype, primary, sentinel)

\* An update of two distinct pixels, one in an already covered coarse pixel
\* and one that made the map grow.
C1_Witness ==
    /\ WellFormedUpdate(call, dtype) /\ Unique(call.pixel) /\ ~raised
    /\ Size(call.pixel) = 2
    /\ Size(grown) = 1
    /\ \E i \in DOMAIN call.pixel : Parent(Self, call.pixel[i]) \in Covered(old)

(* C2: coverage monotonicity.  After any updateValues call every coarse    *)
(* pixel covered before is still covered and the absolute offset of its    *)
(* block is unchanged; a call that returns gains exactly the coarse        *)
(* parents of the target ids that were uncovered.                          *)
C2_CoverageMonotone ==
    call.op = "updateValues" =>
        /\ \A c \in Covered(old) :
              c \in Covered(Self) /\ BlockOffset(Self, c) = BlockOffset(old, c)
        /\ ~raised =>
              Covered(Self) \ Covered(old) =
                 {Parent(old, call.pixel[i]) : i \in DOMAIN call.pixel}
                    \ Covered(old)

\* A call that found one coarse pixel covered and added another one.
C2_Witness ==
    /\ call.op = "updateValues" /\ ~raised
    /\ Cardinality(Covered(old)) = 1
    /\ Cardinality(Covered(Self)) = 2

(* C3: in every state reached from makeEmpty or convertHealpixMap by       *)
(* updateValues, applyMask and in-place arithmetic calls, the coverage     *)
(* index maps the covered coarse pixels one-to-one onto the blocks         *)
(* 1..numCovered, and the storage holds (numCovered + 1) blocks.           *)
C3_CoverageBijection ==
    LET nFinePerCov == 2 ^ bitShift
        numCovered  == Cardinality(Covered(Self))
    IN  /\ \A c \in Covered(Self) :
              /\ BlockOffset(Self, c) % nFinePerCov = 0
              /\ BlockOffset(Self, c) \div nFinePerCov \in 1 .. numCovered
        /\ \A c, d \in Covered(Self) :
              c # d => BlockOffset(Self, c) # BlockOffset(Self, d)
        /\ \A b \in 1 .. numCovered :
              \E c \in Covered(Self) : BlockOffset(Self, c) = b * nFinePerCov
        /\ Size(sparseMap) = (numCovered + 1) * nFinePerCov

\* A map of two covered coarse pixels, the second one added by
\* updateValues, after an applyMask call that changed the storage.
C3_Witness ==
    /\ call.op = "applyMask" /\ ~raised
    /\ sparseMap # old.sparseMap
    /\ Cardinality(Covered(Self)) = 2
    /\ BlockOffset(Self, 1) < BlockOffset(Self, 0)

(* C4: in every state reached by updateValues, applyMask and in-place      *)
(* arithmetic calls, every slot of block 0 holds the sentinel, no covered  *)
(* coarse pixel resolves to block 0, and every fine pixel of an uncovered  *)
(* coarse pixel reads as the sentinel and as not valid.                    *)
C4_DefaultBlock ==
    LET nFinePerCov == 2 ^ bitShift
        covered     == Covered(Self)
        uncovered   == {g \in FinePixels : Parent(Self, g) \notin covered}
    IN  /\ \A i \in 0 .. (nFinePerCov - 1) :
              PrimaryOf(Self, sparseMap[i]) = sentinel
        /\ \A c \in covered : BlockOffset(Self, c) >= nFinePerCov
        /\ \A g \in uncovered :
              /\ Offsets(Self, One(g))[0] \in 0 .. (nFinePerCov - 1)
              /\ PrimaryOf(Self, ValueAt(Self, g)) = sentinel
              /\ ~ValidAt(Self, g)

\* An in-place arithmetic call that changed the storage of a map with a
\* covered coarse pixel.
C4_Witness ==
    /\ call.op = "applyOperation" /\ ~raised
    /\ sparseMap # old.sparseMap
    /\ Covered(Self) # {}

(* C5: validPixels returns, strictly ascending, exactly the fine pixels f  *)
(* with getValuePixel(f) > sentinel (on the primary field for a record     *)
(* map); no pixel of an uncovered coarse pixel and no sentinel-valued      *)
(* pixel is among them, whatever the order the coarse pixels were added.   *)
C5_ValidPixels ==
    LET valid == validPixels(Self)
    IN  /\ \A i, j \in DOMAIN valid : i < j => valid[i] < valid[j]
        /\ Elems(valid) =
              {f \in FinePixels : PrimaryOf(Self, ValueAt(Self, f)) > sentinel}
        /\ \A f \in Elems(valid) :
              /\ Parent(Self, f) \in Covered(Self)
              /\ PrimaryOf(Self, ValueAt(Self, f)) # sentinel

\* A record map whose coarse pixel 1 was added before coarse pixel 0, with
\* two valid pixels and a covered pixel that is not valid.
C5_Witness ==
    /\ dtype = "rec"
    /\ Covered(Self) = {0, 1}
    /\ BlockOffset(Self, 1) < BlockOffset(Self, 0)
    /\ Size(validPixels(Self)) = 2
    /\ Parent(Self, validPixels(Self)[0]) # Parent(Self, validPixels(Self)[1])

(* C6: growth idempotence.  After updateValues(ids, values) returned,      *)
(* calling it again with the same ids and values leaves the same           *)
(* covIndexMap and the same sparseMap, and allocates no block.             *)
C6_GrowthIdempotent ==
    (WellFormedUpdate(call, dtype) /\ ~raised) =>
        LET again == updateValues(Self, call.pixel, call.values, TRUE, dtype)
        IN  /\ ~again.raised
            /\ again.covIndexMap = covIndexMap
            /\ again.sparseMap = sparseMap
            /\ Size(again.sparseMap) = Size(sparseMap)
            /\ Size(again.newCovPix) = 0

\* A call that added two coarse pixels to the coverage.
C6_Witness ==
    /\ WellFormedUpdate(call, dtype) /\ ~raised
    /\ Size(grown) = 2
    /\ Size(sparseMap) > Size(old.sparseMap)

(* C7: failure atomicity of update.  Whenever updateValues raises (values  *)
(* of another dtype, values that are no array, or a values array shorter   *)
(* than the ids), covIndexMap and sparseMap are as they were before the    *)
(* call.                                                                   *)
C7_FailureAtomic ==
    (call.op = "updateValues" /\ raised) =>
        /\ covIndexMap = old.covIndexMap
        /\ sparseMap = old.sparseMap

(* C8: when one updateValues call holds the same fine id more than once,   *)
(* the value stored for it is the one at its last position, whether its    *)
(* coarse pixel was covered before or was added by the call.               *)
C8_LastWriteWins ==
    (WellFormedUpdate(call, dtype) /\ ~raised) =>
        \A i \in DOMAIN call.pixel :
            (\A j \in DOMAIN call.pixel : j > i => call.pixel[j] # call.pixel[i])
                => ValueAt(Self, call.pixel[i]) = call.values[i]

\* A call that held one id twice with different values and had to add the
\* coarse pixel of that id.
C8_Witness ==
    /\ WellFormedUpdate(call, dtype) /\ ~raised
    /\ \E i, j \in DOMAIN call.pixel :
          /\ i < j
          /\ call.pixel[i] = call.pixel[j]
          /\ call.values[i] # call.values[j]
          /\ Parent(Self, call.pixel[i]) \in Elems(grown)

\* The same for an id whose coarse pixel was covered before the call.
C8_WitnessInCoverage ==
    /\ WellFormedUpdate(call, dtype) /\ ~raised
    /\ \E i, j \in DOMAIN call.pixel :
          /\ i < j
          /\ call.pixel[i] = call.pixel[j]
          /\ call.values[i] # call.values[j]
          /\ Parent(Self, call.pixel[i]) \in Covered(old)

(* C9: degrade consistency.  degrade(nside_out, 'max') at a supported      *)
(* resolution returns a map whose value at each output pixel is the        *)
(* maximum of the source values over the valid source pixels of its group, *)
(* and the sentinel of the result when the group has no valid pixel.       *)
C9_DegradeMax ==
    (call.op = "degrade" /\ ~Unsupported(old, call.nside_out)) =>
        /\ ~raised
        /\ ret # <<>>
        /\ \A q \in 0 .. (Nside2Npix(call.nside_out) - 1) :
              LET valid == {ValueAt(old, g) :
                               g \in {h \in Group(old, call.nside_out, q) :
                                         ValidAt(old, h)}}
              IN  ValueAt(ret[1], q) =
                     IF valid = {} THEN ret[1].sentinel ELSE Max(valid)

(* C10: degrade raises, returns no map and leaves the source map as it     *)
(* was whenever nside_out is finer than nsideSparse, coarser than          *)
(* nsideCoverage, or off the quad-tree levels between them.                *)
C10_DegradeRejects ==
    (call.op = "degrade" /\ Unsupported(old, call.nside_out)) =>
        /\ raised
        /\ ret = <<>>
        /\ Self = old

(* C11: applyMask(maskMap, maskBits).  The valid pixels afterwards are the   *)
(* valid pixels before minus the flagged ones, a pixel being flagged iff    *)
(* its mask value is nonzero (maskBits unset) or has a bit of maskBits set; *)
(* every flagged valid pixel reads as the sentinel, every other pixel keeps *)
(* its value, and the covered coarse pixels are the same.                   *)
C11_ApplyMask ==
    (call.op = "applyMask" /\ ~raised) =>
        LET maskValue(g) == ValueAt(call.maskMap[1], g)
            flagged  == {g \in FinePixels :
                            IF call.maskBits = <<>>
                            THEN maskValue(g) # 0
                            ELSE BitAnd(maskValue(g), call.maskBits[1]) # 0}
            validOld == {g \in FinePixels : ValidAt(old, g)}
        IN  /\ {g \in FinePixels : ValidAt(Self, g)} = validOld \ flagged
            /\ \A g \in validOld \cap flagged :
                  PrimaryOf(Self, ValueAt(Self, g)) = sentinel
            /\ \A g \in FinePixels \ (validOld \cap flagged) :
                  ValueAt(Self, g) = ValueAt(old, g)
            /\ Covered(Self) = Covered(old)

\* The map the call in progress was made on, as it was when the call began.
TargetBefore ==
    IF call.target = "self" THEN old.self ELSE old.derived.map[1]

\* The calls that change the map they are made on.
Mutating ==
    \/ call.op = "updateValues"
    \/ call.op \in {"applyMask", "operator"} /\ call.inPlace

(* C12: out-of-place operations do not touch their source.  A copy-        *)
(* returning applyMask or operator leaves the arrays of self unchanged and *)
(* returns a new object; no later updateValues, in-place applyMask or      *)
(* in-place operator on the returned map changes the arrays of self; the   *)
(* in-place applyMask and operators return the object they are called on.  *)
C12_OutOfPlace ==
    /\ (call.op \in {"applyMask", "operator"} /\ ~call.inPlace) =>
          /\ Self = old.self
          /\ ~call.returnsSelf
          /\ ~raised => derived.is = "new"
    /\ (Mutating /\ call.target = "derived"
           /\ old.derived.by \in {"applyMask", "operator"}) =>
          /\ covIndexMap = old.self.covIndexMap
          /\ sparseMap = old.self.sparseMap
    /\ (call.op \in {"applyMask", "operator"} /\ call.inPlace /\ ~raised) =>
          call.returnsSelf

\* An updateValues on the map a copy-returning operator returned, which
\* stored into a block that map already had.
C12_Witness ==
    /\ call.op = "updateValues" /\ call.target = "derived" /\ ~raised
    /\ old.derived.by = "operator"
    /\ Size(grown) = 0
    /\ derived.map[1].sparseMap # old.derived.map[1].sparseMap
    /\ Covered(Self) # {}

(* C13: masked arithmetic.  After adding the constant k to a single-field  *)
(* map every pixel that was not valid holds what it held (the sentinel)    *)
(* and every valid pixel holds its old value plus k; subtracting k again   *)
(* restores the value of every originally valid pixel and the valid set.   *)
C13_AddThenSubtract ==
    (call.op = "operator" /\ call.func = "add" /\ call.target = "self"
        /\ ~raised) =>
        LET before == old.self
            after  == IF call.inPlace THEN Self ELSE derived.map[1]
            back   == applyOperationClass(after, call.other, call.otherClass,
                                          "subtract")
            again  == [after EXCEPT !.sparseMap = back.sparseMap]
        IN  /\ \A g \in FinePixels :
                  ValueAt(after, g) =
                     IF ValidAt(before, g) THEN ValueAt(before, g) + call.other
                     ELSE ValueAt(before, g)
            /\ ~back.raised
            /\ \A g \in FinePixels :
                  /\ ValidAt(again, g) <=> ValidAt(before, g)
                  /\ ValidAt(before, g) => ValueAt(again, g) = ValueAt(before, g)

(* C14: every operator raises and leaves the map unchanged on a record     *)
(* map; the bitwise operators also do so when the storage is not of        *)
(* integer type or the constant is no integer; no operator accepts a       *)
(* constant that is neither an int nor a float.                            *)
C14_OperatorRejects ==
    (call.op = "operator"
        /\ \/ TargetBefore.dtype = "rec"
           \/ IntOnly(call.func) /\ TargetBefore.dtype # "i8"
           \/ IntOnly(call.func) /\ call.otherClass # "int"
           \/ call.otherClass \notin {"int", "float"}) =>
        /\ raised
        /\ Self = old.self
        /\ derived = old.derived

\* A bitwise operator given a float constant on an integer map that holds
\* a valid pixel.
C14_Witness ==
    /\ call.op = "operator" /\ raised
    /\ IntOnly(call.func) /\ call.otherClass = "float"
    /\ dtype = "i8"
    /\ \E g \in FinePixels : ValidAt(Self, g)

C16_ProjectionIsFresh ==
    (Mutating /\ old.derived.is = "new" /\ old.derived.by = "getSingle") =>
        /\ call.target = "derived" =>
              /\ covIndexMap = old.self.covIndexMap
              /\ sparseMap = old.self.sparseMap
        /\ call.target = "self" => derived.map = old.derived.map

\* The map a full read of the file f returns.
FullRead(f) == read(f, <<>>).map[1]

\* The call in progress is a read of the coarse pixels call.pixels[1].
PartialRead == call.op = "read" /\ call.pixels # <<>>

\* The map read has the resolutions, the sentinel, the primary field and
\* the valid pixels of self, and the value of self at every valid pixel.
SameValidAs(m) ==
    /\ m.nsideCoverage = nsideCoverage
    /\ m.nsideSparse = nsideSparse
    /\ m.sentinel = sentinel
    /\ m.primary = primary
    /\ \A g \in FinePixels :
          /\ ValidAt(m, g) <=> ValidAt(Self, g)
          /\ ValidAt(Self, g) => ValueAt(m, g) = ValueAt(Self, g)

(* C17: partial load.  A read of a duplicate-free list P of coarse pixels  *)
(* of which at least one is covered in the file returns a map whose        *)
(* covered coarse pixels are those of P covered in the file, whose storage *)
(* holds that many blocks plus one with block 0 of the file first, which   *)
(* reads at every fine pixel of a loaded coarse pixel what the fully read  *)
(* map reads and the sentinel at every other fine pixel.                   *)
C17_PartialRead ==
    (PartialRead /\ Unique(call.pixels[1])) =>
        LET full == FullRead(old.file)
            P    == Elems(call.pixels[1])
        IN  (P \cap Covered(full) # {}) =>
                /\ ~raised
                /\ ret # <<>>
                /\ LET m      == ret[1]
                       nfine  == 2 ^ m.bitShift
                       loaded == Covered(m)
                   IN  /\ loaded = P \cap Covered(full)
                       /\ Size(m.sparseMap) = (Cardinality(loaded) + 1) * nfine
                       /\ \A o \in 0 .. (nfine - 1) :
                             m.sparseMap[o] = full.sparseMap[o]
                       /\ \A g \in FinePixels :
                             IF RightShift(g, m.bitShift) \in loaded
                             THEN ValueAt(m, g) = ValueAt(full, g)
                             ELSE PrimaryOf(m, ValueAt(m, g)) = m.sentinel

\* A partial read that loaded fewer blocks than the file holds, from a file
\* whose blocks are not in the order of the coarse pixels.
C17_Witness ==
    /\ PartialRead /\ ~raised
    /\ Size(call.pixels[1]) = 2
    /\ Covered(ret[1]) # {}
    /\ Covered(ret[1]) # Covered(FullRead(old.file))
    /\ \E c1, c2 \in Covered(FullRead(old.file)) :
          /\ c1 < c2
          /\ BlockOffset(FullRead(old.file), c1)
                > BlockOffset(FullRead(old.file), c2)

(* C18: a partial read of a duplicate-free list of coarse pixels none of   *)
(* which is covered in the file fails with the error "none of the pixels   *)
(* is in the coverage map" and returns no map, also when the file holds an *)
(* empty map; a list with a repeated coarse pixel is rejected before the   *)
(* value extension is read.                                                *)
C18_NoneCovered ==
    PartialRead =>
        /\ (Unique(call.pixels[1])
               /\ Elems(call.pixels[1]) \cap Covered(FullRead(old.file)) = {}) =>
              /\ raised
              /\ ret = <<>>
              /\ call.error = "RuntimeError: none in the coverage map"
        /\ ~Unique(call.pixels[1]) =>
              /\ raised
              /\ ret = <<>>
              /\ call.error = "RuntimeError: must be unique"
              /\ \A i \in 1 .. Len(call.hdusRead) : call.hdusRead[i] # "SPARSE"

\* The file holds what write stores of self as it is now, and the call in
\* progress is a full read of it.
ReadBack ==
    /\ call.op = "read" /\ call.pixels = <<>>
    /\ old.file = write(Self, <<>>, TRUE).file

(* C19, as stated: write followed by a full read returns a map with the    *)
(* resolutions, sentinel, primary field and valid pixels of the map        *)
(* written, the same value at every valid pixel and the sentinel at every  *)
(* other pixel.                                                            *)
C19_RoundTripSentinel ==
    ReadBack =>
        /\ ~raised
        /\ ret # <<>>
        /\ SameValidAs(ret[1])
        /\ \A g \in FinePixels :
              ~ValidAt(Self, g) =>
                  PrimaryOf(ret[1], ValueAt(ret[1], g)) = sentinel

(* C19, amended: write followed by a full read returns a map with the      *)
(* resolutions, sentinel, primary field and valid pixels of the map        *)
(* written and the same value at every fine pixel, valid or not.           *)
C19_RoundTrip ==
    ReadBack =>
        /\ ~raised
        /\ ret # <<>>
        /\ SameValidAs(ret[1])
        /\ \A g \in FinePixels : ValueAt(ret[1], g) = ValueAt(Self, g)

\* A full read of the file written from a map with two covered coarse
\* pixels, a valid pixel and a stored value that is not valid.
C19_Witness ==
    /\ ReadBack /\ ~raised
    /\ Cardinality(Covered(Self)) = 2
    /\ \E g \in FinePixels : ValidAt(Self, g)
    /\ \E g \in FinePixels :
          ~ValidAt(Self, g) /\ PrimaryOf(Self, ValueAt(Self, g)) # sentinel

(* C20: write to a file that exists with clobber=False raises and leaves   *)
(* the file as it is; with clobber=True, or when there is no file, the     *)
(* file afterwards holds two extensions, the covIndexMap and the sparseMap *)
(* of the map, and nothing else.                                           *)
C20_Write ==
    call.op = "write" =>
        IF old.file # <<>> /\ ~call.clobber
        THEN raised /\ file = old.file
        ELSE /\ ~raised
             /\ file # <<>>
             /\ Len(file[1]) = 2
             /\ file[1][1].extname = "COV"
             /\ file[1][1].data = covIndexMap
             /\ file[1][2].extname = "SPARSE"
             /\ file[1][2].data = sparseMap
             /\ fitsioRead(file, "COV").data = covIndexMap
             /\ fitsioRead(file, "SPARSE").data = sparseMap

\* A write with clobber=True over a file written from another map.
C20_Witness ==
    /\ call.op = "write" /\ call.clobber /\ ~raised
    /\ old.file # <<>>
    /\ fitsioRead(old.file, "SPARSE").data # sparseMap
    /\ file # old.file

(* C21: coverageMap holds, for every covered coarse pixel c, the number of *)
(* valid fine pixels whose coarse parent is c divided by the number of     *)
(* fine pixels per coarse pixel, and 0 for every coarse pixel that is not  *)
(* covered.                                                                *)
C21_CoverageMap ==
    call.op = "coverageMap" =>
        /\ ret # <<>>
        /\ \A c \in CoarsePixels :
              LET nValid == Cardinality({g \in FinePixels :
                                Parent(Self, g) = c /\ ValidAt(Self, g)})
              IN  IF c \in Covered(Self)
                  THEN ret[1][c].num * (2 ^ bitShift) = nValid * ret[1][c].den
                  ELSE ret[1][c].num = 0

\* The map has a valid fine pixel.
HasValid == \E g \in FinePixels : ValidAt(Self, g)

\* What holds of the locals of makeUniformRandoms whenever the loop test is
\* reached and when the function has returned.
LoopInvariant ==
    randoms.pc \in {"loop", "returned"} =>
        /\ 0 <= randoms.nLeft
        /\ randoms.ctr + randoms.nLeft = randoms.nRandom
        /\ randoms.stored \subseteq 0 .. (randoms.nRandom - 1)
        /\ \A i \in randoms.stored : ValidAt(Self, randoms.raRand[i])

(* C22: makeUniformRandoms(sparseMap, nRandom).  At every pass of the loop *)
(* 0 <= nLeft and ctr + nLeft = nRandom, only points at which the map is   *)
(* valid are stored and none is stored past index nRandom - 1; under fair  *)
(* sampling the function eventually returns nRandom points whenever the    *)
(* map has a valid fine pixel; with a covered map without a valid fine     *)
(* pixel it never returns (for nRandom > 0).                               *)
C22_UniformRandoms ==
    /\ []LoopInvariant
    /\ [](randoms.pc # "raised" \/ Covered(Self) = {})
    /\ (randoms.pc = "loop" /\ HasValid)
          ~> (randoms.pc = "returned" /\ randoms.ctr = randoms.nRandom
                 /\ randoms.stored = 0 .. (randoms.nRandom - 1))
    /\ []((randoms.pc = "returned" /\ randoms.nRandom > 0) => HasValid)

====
